---- MODULE Spec2Model ----
(***************************************************************************)
(* Model of the cherna_vdovitsa crawler (src/src/crawler/mod.rs):          *)
(* the orchestrator Vdovitsa::crawl, the per-host coordinator              *)
(* Vdovitsa::crawl_target, the per-URL worker Vdovitsa::crawl_url and the  *)
(* pure classifier Vdovitsa::compare_hosts.                                *)
(*                                                                         *)
(* A string is a sequence of characters.  To keep URLs short, a scheme     *)
(* name ("https"), the separator "://" and an IPv4 octet are written as    *)
(* one character each; every other character is a letter, "." or "/".      *)
(***************************************************************************)
EXTENDS Integers, Sequences, FiniteSets, TLC

(***************************************************************************)
(* Bounds.                                                                 *)
(***************************************************************************)
\* longest domain string enumerated for compare_hosts
MaxDomainLen == 4

(***************************************************************************)
(* String helpers (std::str).  Each binds its string argument once        *)
(* (s \in {str}), so that the argument is evaluated once per call.         *)
(***************************************************************************)
RECURSIVE trim_end_matches(_, _)
\* str::trim_end_matches(ch): remove every trailing occurrence of ch
trim_end_matches(str, ch) == CHOOSE r \in {IF Len(s) > 0 /\ s[Len(s)] = ch THEN trim_end_matches(SubSeq(s, 1, Len(s) - 1), ch) ELSE s : s \in {str}} : TRUE

\* str::starts_with(ch)
starts_with(s, ch) == Len(s) > 0 /\ s[1] = ch

\* position of the first occurrence of ch in s, 0 when absent
IndexOf(str, ch) == CHOOSE r \in {IF \E i \in 1..Len(s) : s[i] = ch THEN CHOOSE i \in 1..Len(s) : s[i] = ch /\ \A j \in 1..(i - 1) : s[j] # ch ELSE 0 : s \in {str}} : TRUE

\* str::split_once(sep): <<before, after>> around the first sep, <<>> for None
split_once(str, sep) == CHOOSE r \in {IF IndexOf(s, sep) = 0 THEN <<>> ELSE <<SubSeq(s, 1, IndexOf(s, sep) - 1), SubSeq(s, IndexOf(s, sep) + 1, Len(s))>> : s \in {str}} : TRUE

RECURSIVE split(_, _)
\* str::split(ch): the pieces between occurrences of ch (always at least one)
split(str, ch) == CHOOSE r \in {IF IndexOf(s, ch) = 0 THEN <<s>> ELSE <<SubSeq(s, 1, IndexOf(s, ch) - 1)>> \o split(SubSeq(s, IndexOf(s, ch) + 1, Len(s)), ch) : s \in {str}} : TRUE

\* Iterator::rev
rev(seq) == [i \in 1..Len(seq) |-> seq[Len(seq) + 1 - i]]

\* Iterator::take(n)
take(seq, n) == SubSeq(seq, 1, IF Len(seq) < n THEN Len(seq) ELSE n)

(***************************************************************************)
(* url::Host and HostRelation.                                             *)
(***************************************************************************)
\* Host::Domain(String)
Domain(d) == [kind |-> "Domain", val |-> d]

\* Host::Ipv4(Ipv4Addr), the address as its sequence of octets
Ipv4(a) == [kind |-> "Ipv4", val |-> a]

\* Host::Ipv6(Ipv6Addr), the address as its sequence of segments
Ipv6(a) == [kind |-> "Ipv6", val |-> a]

\* enum HostRelation
HostRelation == {"Same", "Related", "Unrelated"}

\* compare_hosts with the two-label window narrowed to one label
compare_hosts_take1(host1, host2) == IF host1.kind = "Domain" /\ host2.kind = "Domain" THEN (IF host1.val = host2.val THEN "Same" ELSE IF take(rev(split(host1.val, ".")), 1) = take(rev(split(host2.val, ".")), 1) THEN "Related" ELSE "Unrelated") ELSE IF host1.kind = host2.kind /\ host1.val = host2.val THEN "Same" ELSE "Unrelated"

\* compare_hosts with the mixed-kind arm answering Related for (domain, IPv4)
compare_hosts_mixed(host1, host2) == IF host1.kind = "Domain" /\ host2.kind = "Domain" THEN (IF host1.val = host2.val THEN "Same" ELSE IF take(rev(split(host1.val, ".")), 2) = take(rev(split(host2.val, ".")), 2) THEN "Related" ELSE "Unrelated") ELSE IF host1.kind = host2.kind THEN (IF host1.val = host2.val THEN "Same" ELSE "Unrelated") ELSE IF host1.kind = "Domain" /\ host2.kind = "Ipv4" THEN "Related" ELSE "Unrelated"

\* Vdovitsa::compare_hosts
compare_hosts(host1, host2) ==
  IF host1.kind = "Domain" /\ host2.kind = "Domain"
  THEN IF host1.val = host2.val
       THEN "Same"
       ELSE LET host1_parts == take(rev(split(host1.val, ".")), 2)
                host2_parts == take(rev(split(host2.val, ".")), 2)
            IN IF host1_parts = host2_parts THEN "Related" ELSE "Unrelated"
  ELSE IF host1.kind = "Ipv4" /\ host2.kind = "Ipv4"
  THEN IF host1.val = host2.val THEN "Same" ELSE "Unrelated"
  ELSE IF host1.kind = "Ipv6" /\ host2.kind = "Ipv6"
  THEN IF host1.val = host2.val THEN "Same" ELSE "Unrelated"
  ELSE "Unrelated"

(***************************************************************************)
(* url::Url, for the URLs the crawl meets: "scheme://authority/path" with  *)
(* a special scheme, and "scheme:rest" with an opaque one.  Ports,         *)
(* userinfo, queries, fragments, upper case and dot segments are outside   *)
(* the alphabet.                                                           *)
(***************************************************************************)
\* schemes the url crate treats as special (always host-based)
SpecialSchemes == {"https", "http", "ftp"}

\* schemes without an authority
OpaqueSchemes == {"mailto"}

\* one character per IPv4 octet
OctetChars == {"1", "2"}

\* characters allowed in a domain
DomainChars == {"a", "b", "c", "o", "p", "q", "r", "s", "t", "u", "x", "."}

\* Option<Host>::None
NoHost == [kind |-> "None", val |-> <<>>]

RECURSIVE join(_, _)
\* the pieces of seq separated by ch
join(pieces, ch) == CHOOSE r \in {IF Len(seq) = 0 THEN <<>> ELSE IF Len(seq) = 1 THEN <<seq[1]>> ELSE <<seq[1], ch>> \o join(Tail(seq), ch) : seq \in {pieces}} : TRUE

\* impl Display for Host (the format!("{}", host) of crawl_target)
host_to_string(host) == IF host.kind = "Ipv4" THEN join(host.val, ".") ELSE IF host.kind = "Ipv6" THEN <<"[">> \o host.val \o <<"]">> ELSE host.val

\* Host::parse of an authority: <<TRUE, host>> or <<FALSE, NoHost>>
Host_parse(str) ==
  CHOOSE r \in {
     IF Len(authority) = 0 THEN <<FALSE, NoHost>>
     ELSE IF Len(authority) >= 2 /\ authority[1] = "[" /\ authority[Len(authority)] = "]"
     THEN <<TRUE, Ipv6(SubSeq(authority, 2, Len(authority) - 1))>>
     ELSE IF Len(parts) = 4 /\ \A i \in 1..4 : Len(parts[i]) = 1 /\ parts[i][1] \in OctetChars
     THEN <<TRUE, Ipv4([i \in 1..4 |-> parts[i][1]])>>
     ELSE IF \A i \in 1..Len(authority) : authority[i] \in DomainChars
     THEN <<TRUE, Domain(authority)>>
     ELSE <<FALSE, NoHost>>
     : authority \in {str}, parts \in {split(str, ".")}} : TRUE

\* Err(ParseError) of Url::parse
ParseError == [ok |-> FALSE, scheme |-> "", host |-> NoHost, path |-> <<>>]

\* Url::parse
Url_parse(str) ==
  CHOOSE r \in {
    IF Len(s) >= 2 /\ s[1] \in SpecialSchemes /\ s[2] = "://"
    THEN LET rest == SubSeq(s, 3, Len(s))
             slash == IndexOf(rest, "/")
             authority == IF slash = 0 THEN rest ELSE SubSeq(rest, 1, slash - 1)
             path == IF slash = 0 THEN <<"/">> ELSE SubSeq(rest, slash, Len(rest))
         IN CHOOSE u \in {IF host[1] THEN [ok |-> TRUE, scheme |-> s[1], host |-> host[2], path |-> path] ELSE ParseError : host \in {Host_parse(authority)}} : TRUE
    ELSE IF Len(s) >= 2 /\ s[1] \in OpaqueSchemes /\ s[2] = ":"
    THEN [ok |-> TRUE, scheme |-> s[1], host |-> NoHost, path |-> SubSeq(s, 3, Len(s))]
    ELSE ParseError
    : s \in {str}} : TRUE

\* impl Display for Url (Url::to_string): the serialization
Url_to_string(url) == IF url.scheme \in SpecialSchemes THEN <<url.scheme, "://">> \o host_to_string(url.host) \o url.path ELSE <<url.scheme, ":">> \o url.path

(***************************************************************************)
(* CrawlTarget (crawler/crawl_target.rs): a host, equal by host value.     *)
(***************************************************************************)
\* CrawlTarget::new
CrawlTarget_new(host) == [host |-> host]

(***************************************************************************)
(* The link resolution of crawl_target (the body of its for loop).         *)
(***************************************************************************)
\* nothing to do for this link
Drop == [act |-> "drop", url |-> ParseError, key |-> <<>>, target |-> CrawlTarget_new(NoHost)]

\* insert key into crawled_urls and spawn crawl_url(url)
Dispatch(url, key) == [act |-> "spawn", url |-> url, key |-> key, target |-> CrawlTarget_new(NoHost)]

\* send CrawlTarget::new(host) on new_targets
Forward(host) == [act |-> "forward", url |-> ParseError, key |-> <<>>, target |-> CrawlTarget_new(host)]

\* normalized_url without the trimming of the trailing slashes
normalized_url_untrimmed(parsed_url) == split_once(Url_to_string(parsed_url), "://")[2]

\* the key of a same-host absolute link
normalized_url(parsed_url) == split_once(trim_end_matches(Url_to_string(parsed_url), "/"), "://")[2]

\* the URL built from a root-relative link
constructed_link(crawl_target, relative_path) == <<"https", "://">> \o host_to_string(crawl_target.host) \o relative_path

\* resolve_link with a Related host dispatched like a Same host
resolve_link_related_fetched(link, crawl_target, crawled_urls) ==
  LET parsed_url == Url_parse(link)
  IN IF parsed_url.ok /\ parsed_url.scheme \in {"https", "http"} /\ parsed_url.host.kind # "None" /\ compare_hosts(parsed_url.host, crawl_target.host) # "Unrelated" /\ normalized_url(parsed_url) \notin crawled_urls
     THEN Dispatch(parsed_url, normalized_url(parsed_url))
     ELSE Drop

\* one iteration of `for link in new_potential_link`
resolve_link(link, crawl_target, crawled_urls) ==
  CHOOSE r \in {
     IF parsed_url.ok
     THEN IF parsed_url.scheme = "https" \/ parsed_url.scheme = "http"
          THEN IF parsed_url.host.kind # "None"
               THEN CASE compare_hosts(parsed_url.host, crawl_target.host) = "Same" ->
                           IF normalized_url(parsed_url) \notin crawled_urls
                           THEN Dispatch(parsed_url, normalized_url(parsed_url))
                           ELSE Drop
                      [] compare_hosts(parsed_url.host, crawl_target.host) = "Related" ->
                           Forward(parsed_url.host)
                      [] OTHER -> Drop
               ELSE Drop
          ELSE Drop
     ELSE IF starts_with(relative_path, "/")
          THEN IF constructed_link(crawl_target, relative_path) \notin crawled_urls
               THEN Dispatch(Url_parse(constructed_link(crawl_target, relative_path)), constructed_link(crawl_target, relative_path))
               ELSE Drop
          ELSE Drop
     : parsed_url \in {Url_parse(link)}, relative_path \in {trim_end_matches(link, "/")}} : TRUE

(***************************************************************************)
(* The web the crawl runs against: what the HTTP collaborator answers for  *)
(* each page.  A page is keyed by authority and path without trailing      *)
(* slash; a URL with no entry does not answer the probe.                   *)
(***************************************************************************)
\* capacity of both mpsc channels
ChannelCapacity == 32

\* the outcomes of fetching one page
PageKinds == {"html", "probe_failed", "no_content_type", "not_html", "get_failed", "decode_failed"}

\* a page: how the fetch ends and the hrefs of the anchors of its body
Page(kind, hrefs) == [kind |-> kind, hrefs |-> hrefs]

\* the domain names of the webs
s_a == <<"a", ".", "x", ".", "c">>

s_b == <<"b", ".", "x", ".", "c">>

s_c == <<"c", ".", "x", ".", "c">>

s_u == <<"u", ".", "o">>

s_q == <<"q", ".", "o">>

s_r == <<"r", ".", "o">>

s_ip == <<"1", ".", "2", ".", "1", ".", "2">>

\* an absolute href
Abs(scheme, authority, path) == <<scheme, "://">> \o authority \o path

\* CrawlTarget of a domain name
T(name) == CrawlTarget_new(Domain(name))

\* the end-to-end example: a relative link, a related host, an unrelated host, an unsupported scheme
WebEndToEnd == [web |-> (s_a :> Page("html", {<<"/", "p">>, Abs("https", s_b, <<"/">>), Abs("https", s_u, <<>>), Abs("ftp", <<"x", ".", "c">>, <<>>)})
                         @@ (s_a \o <<"/", "p">>) :> Page("html", {})
                         @@ s_b :> Page("html", {Abs("https", s_a, <<"/">>)})
                         @@ s_u :> Page("html", {<<"/", "p">>})),
                seeds |-> {T(s_a)}]

\* one page referenced in every spelling, and links back to the root
WebSpellings == [web |-> (s_a :> Page("html", {<<"/", "p">>, Abs("https", s_a, <<"/", "p">>), Abs("http", s_a, <<"/", "p", "/">>), Abs("https", s_a, <<>>)})
                          @@ (s_a \o <<"/", "p">>) :> Page("html", {<<"/">>, <<"/", "p", "/">>, Abs("http", s_a, <<"/">>)})),
                 seeds |-> {T(s_a)}]

\* a chain of pages root -> /p -> /q, the last one with links that resolve to nothing
WebChain == [web |-> (s_a :> Page("html", {<<"/", "p">>})
                      @@ (s_a \o <<"/", "p">>) :> Page("html", {<<"/", "q">>})
                      @@ (s_a \o <<"/", "q">>) :> Page("html", {<<"mailto", ":", "u">>, <<"p">>, Abs("ftp", s_a, <<"/", "r">>), Abs("https", s_u, <<"/">>), Abs("https", s_b, <<"/", "p">>)})),
             seeds |-> {T(s_a)}]

\* a root page whose links all lead to pages on which the worker returns early
WebFailures == [web |-> (s_a :> Page("html", {<<"/", "p">>, <<"/", "q">>, <<"/", "r">>})
                         @@ (s_a \o <<"/", "p">>) :> Page("probe_failed", {})
                         @@ (s_a \o <<"/", "q">>) :> Page("no_content_type", {<<"/", "o">>})
                         @@ (s_a \o <<"/", "r">>) :> Page("not_html", {<<"/", "o">>})),
                seeds |-> {T(s_a)}]

\* seeds whose root pages contribute nothing, one per way of contributing nothing (b.x.c does not answer)
WebSilent == [web |-> (s_a :> Page("html", {})
                       @@ s_c :> Page("no_content_type", {<<"/", "p">>})
                       @@ s_u :> Page("not_html", {<<"/", "p">>})
                       @@ s_q :> Page("get_failed", {})
                       @@ s_r :> Page("decode_failed", {<<"/", "p">>})),
              seeds |-> {T(s_a), T(s_b), T(s_c), T(s_u), T(s_q), T(s_r)}]

\* a seed given by address, with links to a domain, to another address, to itself and to a malformed host
WebAddress == [web |-> (s_ip :> Page("html", {Abs("https", s_a, <<"/">>), Abs("https", <<"a", " ", "x">>, <<"/">>), Abs("https", <<"2", ".", "2", ".", "1", ".", "2">>, <<"/">>), Abs("http", s_ip, <<"/", "p", "/">>)})),
               seeds |-> {CrawlTarget_new(Ipv4(<<"1", "2", "1", "2">>))}]

\* two seeded sibling hosts that report each other
WebSiblings == [web |-> (s_a :> Page("html", {Abs("https", s_b, <<"/">>)})
                         @@ s_b :> Page("html", {Abs("https", s_a, <<"/">>), Abs("http", s_a, <<"/", "p">>)})),
                seeds |-> {T(s_a), T(s_b)}]

\* two hosts that report each other, one of them with two pages that both report links
WebCrowded == [web |-> (s_a :> Page("html", {<<"/", "p">>, <<"/", "q">>, Abs("https", s_b, <<"/">>)})
                        @@ (s_a \o <<"/", "p">>) :> Page("html", {<<"/">>})
                        @@ (s_a \o <<"/", "q">>) :> Page("html", {<<"/">>})
                        @@ s_b :> Page("html", {Abs("https", s_a, <<"/">>)})),
               seeds |-> {T(s_a), T(s_b)}]

\* the crawls explored
Scenarios == {WebEndToEnd, WebSpellings, WebChain, WebFailures, WebSilent, WebSiblings, WebAddress}

\* the key of the page a URL addresses
page_key(url) == host_to_string(url.host) \o trim_end_matches(url.path, "/")

(***************************************************************************)
(* State.                                                                  *)
(***************************************************************************)
VARIABLES
  capacity,           \* the capacity both channels are created with (fixed)
  close_when_idle,    \* whether crawl_target has its close step (fixed; TRUE in the program)
  previous,           \* history: the outcome of an earlier crawl of the same web
  web,                \* the pages of the web (fixed during a crawl)
  orch,               \* position of crawl(): "new", "recv", "done", "panicked"
  crawl_targets,      \* Vdovitsa.crawl_targets
  new_targets,        \* buffer of the channel of crawl()
  new_targets_closed, \* new_targets.close() was called, or the receiver dropped
  crawl_target_tasks, \* JoinSet of crawl(): ids of the coordinators not reaped
  coordinators,       \* the crawl_target tasks spawned so far, in spawn order
  received,           \* history: the targets crawl() has received, in order
  forwarded,          \* history: the targets sent on new_targets
  done_count,         \* history: how often "Crawling done" was printed
  hosts,              \* the pair of hosts handed to compare_hosts
  relation            \* the results of compare_hosts on hosts and on hosts reversed

vars == <<capacity, close_when_idle, previous, web, orch, crawl_targets, new_targets, new_targets_closed, crawl_target_tasks, coordinators, received, forwarded, done_count, hosts, relation>>

crawl_vars == <<capacity, close_when_idle, previous, web, orch, crawl_targets, new_targets, new_targets_closed, crawl_target_tasks, coordinators, received, forwarded, done_count>>

\* positions of a task that is still running
Live == {"recv", "links", "send", "fetch", "exit"}

\* positions of a task whose JoinHandle is ready
Finished == {"done", "panicked"}

(***************************************************************************)
(* Tasks.                                                                  *)
(***************************************************************************)
\* a crawl_url task just spawned for url; key is history: the entry of crawled_urls it was dispatched under
new_worker(url, key) == [url |-> url, key |-> key, pc |-> "fetch", new_links_to_crawl |-> {}, sent |-> 0, kind |-> ""]

\* the root URL of a target: Url::parse(&format!("https://{}", host)).unwrap()
root_url(crawl_target) == Url_parse(<<"https", "://">> \o host_to_string(crawl_target.host))

\* new_coordinator without the insertion of the host into crawled_urls
new_coordinator_unseeded(crawl_target) ==
  [crawl_target |-> crawl_target,
   pc |-> "recv",
   crawled_urls |-> {},
   new_links |-> <<>>,
   closed |-> FALSE,
   batch |-> {},
   sending |-> {},
   crawl_url_tasks |-> {1},
   workers |-> <<new_worker(root_url(crawl_target), host_to_string(crawl_target.host))>>,
   resolved |-> {}]

\* a crawl_target task just spawned: its state when it first waits in recv
new_coordinator(crawl_target) ==
  [crawl_target |-> crawl_target,
   pc |-> "recv",
   crawled_urls |-> {host_to_string(crawl_target.host)},
   new_links |-> <<>>,
   closed |-> FALSE,
   batch |-> {},
   sending |-> {},
   crawl_url_tasks |-> {1},
   workers |-> <<new_worker(root_url(crawl_target), host_to_string(crawl_target.host))>>,
   resolved |-> {}]

\* JoinSet drop: every task that has not finished is aborted at its next await
abort_all(tasks) == [i \in DOMAIN tasks |-> IF tasks[i].pc \in {"fetch", "send"} THEN [tasks[i] EXCEPT !.pc = "aborted"] ELSE IF tasks[i].pc = "exit" THEN [tasks[i] EXCEPT !.pc = "done"] ELSE tasks[i]]

\* a crawl_target task ending (return, panic or abort): its locals are dropped
drop_coordinator(co, pc) == [co EXCEPT !.pc = pc, !.workers = abort_all(@), !.crawl_url_tasks = {}, !.new_links = <<>>, !.closed = TRUE, !.batch = {}, !.sending = {}]

\* JoinSet drop of crawl(): every running coordinator is aborted
abort_coordinators(cos) == [c \in DOMAIN cos |-> IF cos[c].pc \in Live THEN drop_coordinator(cos[c], "aborted") ELSE cos[c]]

\* strong senders of the channel of crawl(): one per running coordinator (tx itself is dropped before the loop)
target_senders == Cardinality({c \in DOMAIN coordinators : coordinators[c].pc \in Live})

\* strong senders of a coordinator's channel: its own tx and one clone per running worker
link_senders(co) == (IF co.pc \in Live THEN 1 ELSE 0) + Cardinality({w \in DOMAIN co.workers : co.workers[w].pc \in Live})

\* the tasks left in a JoinSet after `while let Some(Some(_)) = join_next().now_or_never() {}`
reap(join_set, tasks) == {i \in join_set : tasks[i].pc \notin Finished}

(***************************************************************************)
(* Vdovitsa::crawl_url                                                     *)
(***************************************************************************)
\* what the web answers for a URL
page_of(url) == IF page_key(url) \in DOMAIN web THEN web[page_key(url)] ELSE Page("probe_failed", {})

\* the early returns of crawl_url: the probe fails, or the content type is absent or not text/html
returns_early(page) == page.kind \in {"probe_failed", "no_content_type", "not_html"}

\* new_links_to_crawl after the GET: the hrefs of the body, nothing when the GET or the decoding fails
extracted_links(page) == IF page.kind = "html" THEN page.hrefs ELSE {}

\* must_send sending also an empty batch
must_send_always(links) == TRUE

\* the guard of the send: !new_links_to_crawl.is_empty()
must_send(links) == links # {}

\* probe, GET and parse of one page
crawl_url_fetch(c, w) ==
  LET co == coordinators[c]
      page == page_of(co.workers[w].url)
      links == IF returns_early(page) THEN {} ELSE extracted_links(page)
  IN /\ co.workers[w].pc = "fetch"
     /\ coordinators' = [coordinators EXCEPT ![c].workers[w] = [@ EXCEPT !.kind = page.kind, !.new_links_to_crawl = links, !.pc = IF ~returns_early(page) /\ must_send(links) THEN "send" ELSE "done"]]
     /\ UNCHANGED <<capacity, close_when_idle, previous, web, orch, crawl_targets, new_targets, new_targets_closed, crawl_target_tasks, received, forwarded, done_count, hosts, relation>>

\* new_links.send(new_links_to_crawl).await.unwrap()
crawl_url_send(c, w) ==
  LET co == coordinators[c]
  IN /\ co.workers[w].pc = "send"
     /\ IF co.closed
        THEN coordinators' = [coordinators EXCEPT ![c].workers[w].pc = "panicked"]
        ELSE /\ Len(co.new_links) < capacity
             /\ coordinators' = [coordinators EXCEPT ![c].new_links = Append(@, co.workers[w].new_links_to_crawl), ![c].workers[w].sent = @ + 1, ![c].workers[w].pc = "exit"]
     /\ UNCHANGED <<capacity, close_when_idle, previous, web, orch, crawl_targets, new_targets, new_targets_closed, crawl_target_tasks, received, forwarded, done_count, hosts, relation>>

\* the task completes after its send
crawl_url_return(c, w) ==
  /\ coordinators[c].workers[w].pc = "exit"
  /\ coordinators' = [coordinators EXCEPT ![c].workers[w].pc = "done"]
  /\ UNCHANGED <<capacity, close_when_idle, previous, web, orch, crawl_targets, new_targets, new_targets_closed, crawl_target_tasks, received, forwarded, done_count, hosts, relation>>

(***************************************************************************)
(* Vdovitsa::crawl_target                                                  *)
(***************************************************************************)
\* new_links.recv() yields a batch: reap, close when no task is left, start the for loop
crawl_target_recv(c) ==
  LET co == coordinators[c]
      left == reap(co.crawl_url_tasks, co.workers)
  IN /\ co.pc = "recv"
     /\ Len(co.new_links) > 0
     /\ coordinators' = [coordinators EXCEPT ![c].new_links = Tail(@), ![c].crawl_url_tasks = left, ![c].closed = (@ \/ (close_when_idle /\ left = {})), ![c].batch = Head(co.new_links), ![c].pc = IF Head(co.new_links) = {} THEN "recv" ELSE "links"]
     /\ UNCHANGED <<capacity, close_when_idle, previous, web, orch, crawl_targets, new_targets, new_targets_closed, crawl_target_tasks, received, forwarded, done_count, hosts, relation>>

\* new_links.recv() yields None: the coordinator returns
crawl_target_end(c) ==
  LET co == coordinators[c]
  IN /\ co.pc = "recv"
     /\ Len(co.new_links) = 0
     /\ co.closed \/ link_senders(co) = 0
     /\ coordinators' = [coordinators EXCEPT ![c] = drop_coordinator(@, "done")]
     /\ UNCHANGED <<capacity, close_when_idle, previous, web, orch, crawl_targets, new_targets, new_targets_closed, crawl_target_tasks, received, forwarded, done_count, hosts, relation>>

\* one iteration of the for loop, up to the await of a send
crawl_target_link(c) ==
  LET co == coordinators[c]
  IN /\ co.pc = "links"
     /\ \E link \in co.batch : \E r \in {resolve_link(link, co.crawl_target, co.crawled_urls)} :
          LET rest == co.batch \ {link}
          IN coordinators' = [coordinators EXCEPT
               ![c].batch = rest,
               ![c].resolved = @ \cup {link},
               ![c].crawled_urls = IF r.act = "spawn" THEN @ \cup {r.key} ELSE @,
               ![c].workers = IF r.act = "spawn" THEN Append(@, new_worker(r.url, r.key)) ELSE @,
               ![c].crawl_url_tasks = IF r.act = "spawn" THEN @ \cup {Len(co.workers) + 1} ELSE @,
               ![c].sending = IF r.act = "forward" THEN {r.target} ELSE @,
               ![c].pc = IF r.act = "forward" THEN "send" ELSE IF rest = {} THEN "recv" ELSE "links"]
     /\ UNCHANGED <<capacity, close_when_idle, previous, web, orch, crawl_targets, new_targets, new_targets_closed, crawl_target_tasks, received, forwarded, done_count, hosts, relation>>

\* new_targets.send(CrawlTarget::new(host)).await.unwrap()
crawl_target_send(c) ==
  LET co == coordinators[c]
  IN /\ co.pc = "send"
     /\ IF new_targets_closed
        THEN /\ coordinators' = [coordinators EXCEPT ![c] = drop_coordinator(@, "panicked")]
             /\ UNCHANGED <<new_targets, forwarded>>
        ELSE /\ Len(new_targets) < capacity
             /\ \E t \in co.sending :
                  /\ new_targets' = Append(new_targets, t)
                  /\ forwarded' = forwarded \cup {t}
             /\ coordinators' = [coordinators EXCEPT ![c].sending = {}, ![c].pc = IF co.batch = {} THEN "recv" ELSE "links"]
     /\ UNCHANGED <<capacity, close_when_idle, previous, web, orch, crawl_targets, new_targets_closed, crawl_target_tasks, received, done_count, hosts, relation>>

(***************************************************************************)
(* Vdovitsa::crawl                                                         *)
(***************************************************************************)
\* the order in which `for target in &self.crawl_targets` visits the targets (any order gives
\* the same crawl up to the numbering of the coordinators)
iteration_order(targets) == LET member(t) == t \in targets IN SelectSeq(<<T(s_a), T(s_b), T(s_c), T(s_u), T(s_q), T(s_r), CrawlTarget_new(Ipv4(<<"1", "2", "1", "2">>))>>, member)

\* is_new_target admitting every received target
is_new_target_always(targets, target) == TRUE

\* !self.crawl_targets.contains(&new_potential_target)
is_new_target(targets, target) == target \notin targets

\* create the channel, spawn a coordinator per initial target, drop tx
crawl_start ==
  /\ orch = "new"
  /\ orch' = "recv"
  /\ coordinators' = [i \in 1..Cardinality(crawl_targets) |-> new_coordinator(iteration_order(crawl_targets)[i])]
  /\ crawl_target_tasks' = 1..Cardinality(crawl_targets)
  /\ UNCHANGED <<capacity, close_when_idle, previous, web, crawl_targets, new_targets, new_targets_closed, received, forwarded, done_count, hosts, relation>>

\* crawl_recv that joins every coordinator before it receives
crawl_recv_after_join ==
  LET target == Head(new_targets)
      left == reap(crawl_target_tasks, coordinators)
  IN /\ orch = "recv"
     /\ left = {}
     /\ Len(new_targets) > 0
     /\ received' = Append(received, target)
     /\ IF is_new_target(crawl_targets, target)
        THEN /\ crawl_targets' = crawl_targets \cup {target}
             /\ IF target_senders = 0
                THEN \* weak_tx.upgrade() is None: unwrap panics and crawl() unwinds
                     /\ orch' = "panicked"
                     /\ coordinators' = abort_coordinators(coordinators)
                     /\ crawl_target_tasks' = {}
                     /\ new_targets' = <<>>
                     /\ new_targets_closed' = TRUE
                ELSE /\ coordinators' = Append(coordinators, new_coordinator(target))
                     /\ crawl_target_tasks' = left \cup {Len(coordinators) + 1}
                     /\ new_targets' = Tail(new_targets)
                     /\ new_targets_closed' = (new_targets_closed \/ left = {})
                     /\ UNCHANGED orch
        ELSE /\ crawl_target_tasks' = left
             /\ new_targets' = Tail(new_targets)
             /\ new_targets_closed' = (new_targets_closed \/ left = {})
             /\ UNCHANGED <<orch, crawl_targets, coordinators>>
     /\ UNCHANGED <<capacity, close_when_idle, previous, web, forwarded, done_count, hosts, relation>>

\* new_targets.recv() yields a target: reap, close when no task is left, admit the target if it is new
crawl_recv ==
  LET target == Head(new_targets)
      left == reap(crawl_target_tasks, coordinators)
  IN /\ orch = "recv"
     /\ Len(new_targets) > 0
     /\ received' = Append(received, target)
     /\ IF is_new_target(crawl_targets, target)
        THEN /\ crawl_targets' = crawl_targets \cup {target}
             /\ IF target_senders = 0
                THEN \* weak_tx.upgrade() is None: unwrap panics and crawl() unwinds
                     /\ orch' = "panicked"
                     /\ coordinators' = abort_coordinators(coordinators)
                     /\ crawl_target_tasks' = {}
                     /\ new_targets' = <<>>
                     /\ new_targets_closed' = TRUE
                ELSE /\ coordinators' = Append(coordinators, new_coordinator(target))
                     /\ crawl_target_tasks' = left \cup {Len(coordinators) + 1}
                     /\ new_targets' = Tail(new_targets)
                     /\ new_targets_closed' = (new_targets_closed \/ left = {})
                     /\ UNCHANGED orch
        ELSE /\ crawl_target_tasks' = left
             /\ new_targets' = Tail(new_targets)
             /\ new_targets_closed' = (new_targets_closed \/ left = {})
             /\ UNCHANGED <<orch, crawl_targets, coordinators>>
     /\ UNCHANGED <<capacity, close_when_idle, previous, web, forwarded, done_count, hosts, relation>>

\* new_targets.recv() yields None: print "Crawling done" and return
crawl_end ==
  /\ orch = "recv"
  /\ Len(new_targets) = 0
  /\ new_targets_closed \/ target_senders = 0
  /\ orch' = "done"
  /\ done_count' = done_count + 1
  /\ coordinators' = abort_coordinators(coordinators)
  /\ crawl_target_tasks' = {}
  /\ new_targets_closed' = TRUE
  /\ UNCHANGED <<capacity, close_when_idle, previous, web, crawl_targets, new_targets, received, forwarded, hosts, relation>>

(***************************************************************************)
(* The crawl as a state machine.                                           *)
(***************************************************************************)
\* no earlier crawl has been recorded
NoOutcome == [fetched |-> {}, targets |-> {}]

\* the state after Vdovitsa::new(initial_targets) for one of the scenarios, of a
\* build with the given channel capacity, with or without the close step of
\* crawl_target
Vdovitsa_new(scenarios, channel_capacity, close_step) ==
  /\ capacity = channel_capacity
  /\ close_when_idle = close_step
  /\ previous = NoOutcome
  /\ \E sc \in scenarios : web = sc.web /\ crawl_targets = sc.seeds
  /\ orch = "new"
  /\ new_targets = <<>>
  /\ new_targets_closed = FALSE
  /\ crawl_target_tasks = {}
  /\ coordinators = <<>>
  /\ received = <<>>
  /\ forwarded = {}
  /\ done_count = 0
  /\ hosts = <<NoHost, NoHost>>
  /\ relation = <<>>

\* the program as written: channels of ChannelCapacity, the close step present
Init == Vdovitsa_new(Scenarios, ChannelCapacity, TRUE)

\* a step of some URL worker
WorkerStep == \E c \in DOMAIN coordinators : \E w \in DOMAIN coordinators[c].workers : crawl_url_fetch(c, w) \/ crawl_url_send(c, w) \/ crawl_url_return(c, w)

\* a step of some coordinator
CoordinatorStep == \E c \in DOMAIN coordinators : crawl_target_recv(c) \/ crawl_target_end(c) \/ crawl_target_link(c) \/ crawl_target_send(c)

Next ==
  \/ crawl_start
  \/ crawl_recv
  \/ crawl_end
  \/ \E c \in DOMAIN coordinators : crawl_target_recv(c)
  \/ \E c \in DOMAIN coordinators : crawl_target_end(c)
  \/ \E c \in DOMAIN coordinators : crawl_target_link(c)
  \/ \E c \in DOMAIN coordinators : crawl_target_send(c)
  \/ \E c \in DOMAIN coordinators : \E w \in DOMAIN coordinators[c].workers : crawl_url_fetch(c, w)
  \/ \E c \in DOMAIN coordinators : \E w \in DOMAIN coordinators[c].workers : crawl_url_send(c, w)
  \/ \E c \in DOMAIN coordinators : \E w \in DOMAIN coordinators[c].workers : crawl_url_return(c, w)

Spec == Init /\ [][Next]_vars

\* most coordinators of one crawl over the Scenarios
MaxCoordinators == 6

\* The runtime polls every ready task: the orchestrator, the coordinators and the
\* URL workers each take a step when one of them can.  No step of the model can
\* be repeated forever (each consumes a message, a link or a position), so a
\* fair behaviour ends in a state in which no task of any kind has a step left.
FairSpec == Spec /\ WF_vars(crawl_start \/ crawl_recv \/ crawl_end) /\ WF_vars(CoordinatorStep) /\ WF_vars(WorkerStep)

\* the program as written beside the program with the close step of
\* crawl_target (mod.rs:102-104) removed
BuildsInit == \E close_step \in BOOLEAN : Vdovitsa_new(Scenarios, ChannelCapacity, close_step)

BuildsSpec == BuildsInit /\ [][Next]_vars

\* BuildsSpec under the scheduling of FairSpec
BuildsFairSpec == BuildsSpec /\ WF_vars(crawl_start \/ crawl_recv \/ crawl_end) /\ WF_vars(CoordinatorStep) /\ WF_vars(WorkerStep)

\* the pages fetched so far, as pairs of a host and a page, and the crawl target set
outcome == [fetched |-> UNION {{<<coordinators[c].crawl_target, page_key(coordinators[c].workers[w].url)>> : w \in {i \in DOMAIN coordinators[c].workers : coordinators[c].workers[i].kind # ""}} : c \in DOMAIN coordinators},
            targets |-> crawl_targets]

\* the seed set of the scenario the web belongs to
seeds_of(pages) == (CHOOSE sc \in Scenarios \cup {WebCrowded} : sc.web = pages).seeds

\* after crawl() has returned, the same web is crawled again from the same
\* seed set by a new Vdovitsa; the outcome of the first crawl is kept
crawl_again ==
  /\ orch = "done"
  /\ previous = NoOutcome
  /\ previous' = outcome
  /\ crawl_targets' = seeds_of(web)
  /\ orch' = "new"
  /\ new_targets' = <<>>
  /\ new_targets_closed' = FALSE
  /\ crawl_target_tasks' = {}
  /\ coordinators' = <<>>
  /\ received' = <<>>
  /\ forwarded' = {}
  /\ done_count' = 0
  /\ UNCHANGED <<capacity, close_when_idle, web, hosts, relation>>

\* two crawls of one web, one after the other
TwoCrawlsNext == Next \/ crawl_again

TwoCrawlsSpec == Init /\ [][TwoCrawlsNext]_vars

\* the capacity of the channels in the crawls with small channels
SmallCapacity == 1

\* the program with channels of SmallCapacity, which the crawls explored fill
SmallChannelInit == Vdovitsa_new(Scenarios \cup {WebCrowded}, SmallCapacity, TRUE)

SmallChannelSpec == SmallChannelInit /\ [][Next]_vars

\* SmallChannelSpec under the scheduling of FairSpec
SmallChannelFairSpec == SmallChannelSpec /\ WF_vars(crawl_start \/ crawl_recv \/ crawl_end) /\ WF_vars(CoordinatorStep) /\ WF_vars(WorkerStep)

(***************************************************************************)
(* compare_hosts on its own: every pair of hosts over a small alphabet.    *)
(***************************************************************************)
\* the domain strings enumerated
DomainStrings == UNION {[1..n -> {"a", "b", "."}] : n \in 0..MaxDomainLen}

\* the IP addresses enumerated (the same values as IPv4 and as IPv6)
Addresses == {<<"1", "1", "1", "1">>, <<"1", "1", "1", "2">>}

\* the hosts enumerated
AllHosts == {Domain(d) : d \in DomainStrings} \cup {Ipv4(a) : a \in Addresses} \cup {Ipv6(a) : a \in Addresses}

HostInit ==
  /\ capacity = ChannelCapacity
  /\ close_when_idle = TRUE
  /\ previous = NoOutcome
  /\ hosts \in AllHosts \X AllHosts
  /\ relation = <<>>
  /\ web = <<>>
  /\ crawl_targets = {}
  /\ orch = "idle"
  /\ new_targets = <<>>
  /\ new_targets_closed = FALSE
  /\ crawl_target_tasks = {}
  /\ coordinators = <<>>
  /\ received = <<>>
  /\ forwarded = {}
  /\ done_count = 0

\* compare_hosts applied to the pair, in both orders
Compare ==
  /\ relation = <<>>
  /\ relation' = <<compare_hosts(hosts[1], hosts[2]), compare_hosts(hosts[2], hosts[1])>>
  /\ UNCHANGED <<hosts, crawl_vars>>

HostNext == Compare

HostSpec == HostInit /\ [][HostNext]_vars

(***************************************************************************)
(* Properties.                                                             *)
(***************************************************************************)
\* the targets that occur in the Scenarios
KnownTargets == {T(s_a), T(s_b), T(s_c), T(s_u), T(s_q), T(s_r), CrawlTarget_new(Ipv4(<<"1", "2", "1", "2">>))}

\* every URL worker of coordinator c has finished
AllWorkersFinished(c) == \A w \in DOMAIN coordinators[c].workers : coordinators[c].workers[w].pc \notin Live

\* C1: under fair scheduling crawl() eventually returns, and "Crawling done" is
\* printed exactly once, only after the target channel is closed and drained.
C1_CrawlReturnsOnce ==
  /\ <>(orch = "done")
  /\ [](done_count <= 1)
  /\ [](orch = "done" => done_count = 1 /\ new_targets = <<>> /\ (new_targets_closed \/ target_senders = 0))

\* C2: a coordinator whose URL workers have all finished eventually terminates,
\* also when the workers that finished last sent no message.
C2_CoordinatorTerminates == \A c \in 1..MaxCoordinators : (c \in DOMAIN coordinators /\ AllWorkersFinished(c)) ~> (c \in DOMAIN coordinators /\ coordinators[c].pc \notin Live)

\* C3: a coordinator never dispatches two URL workers whose URLs have the same
\* normalized form (authority and path, without scheme and trailing slash).
C3_OneWorkerPerUrl == \A c \in DOMAIN coordinators : \A w1, w2 \in DOMAIN coordinators[c].workers : w1 # w2 => normalized_url(coordinators[c].workers[w1].url) # normalized_url(coordinators[c].workers[w2].url)

\* C4: no host ever has two coordinators, and every host with a coordinator is
\* in the crawl target set.
C4_OneCoordinatorPerHost ==
  /\ \A c1, c2 \in DOMAIN coordinators : c1 # c2 => coordinators[c1].crawl_target # coordinators[c2].crawl_target
  /\ \A c \in DOMAIN coordinators : coordinators[c].crawl_target \in crawl_targets

\* a seeded host was reported twice as related and still has exactly one coordinator
C4_Witness ==
  /\ \E i, j \in DOMAIN received : i < j /\ received[i] = T(s_a) /\ received[j] = T(s_a)
  /\ Cardinality({c \in DOMAIN coordinators : coordinators[c].crawl_target = T(s_a)}) = 1

\* C5: a host forwarded upward as Related that is not yet a crawl target is
\* eventually admitted and gets a coordinator whose root worker fetches its root page.
C5_RelatedHostCrawled == \A t \in KnownTargets : (t \in forwarded /\ t \notin crawl_targets) ~> (t \in crawl_targets /\ \E c \in DOMAIN coordinators : coordinators[c].crawl_target = t /\ coordinators[c].workers[1].kind # "")

\* the pages a page of a host links to: its same-host absolute links and root-relative paths
linked_pages(crawl_target, key) == IF key \in DOMAIN web /\ web[key].kind = "html" THEN {page_key(resolve_link(l, crawl_target, {}).url) : l \in {h \in web[key].hrefs : resolve_link(h, crawl_target, {}).act = "spawn"}} ELSE {}

RECURSIVE reachable_pages(_, _)
\* the pages reachable from the pages of keys through successfully fetched HTML pages
reachable_pages(crawl_target, keys) == LET more == keys \cup UNION {linked_pages(crawl_target, k) : k \in keys} IN IF more = keys THEN keys ELSE reachable_pages(crawl_target, more)

\* C6: when a coordinator ends, every same-host page reachable from its root
\* page has been fetched by a URL worker that ran to completion.
C6_HostExhausted == \A c \in DOMAIN coordinators : coordinators[c].pc = "done" => \A k \in reachable_pages(coordinators[c].crawl_target, {host_to_string(coordinators[c].crawl_target.host)}) : \E w \in DOMAIN coordinators[c].workers : page_key(coordinators[c].workers[w].url) = k /\ coordinators[c].workers[w].pc = "done"

\* C7: every URL worker of a coordinator fetches a URL of the coordinator's host.
C7_WorkersStayOnHost == \A c \in DOMAIN coordinators : \A w \in DOMAIN coordinators[c].workers : coordinators[c].workers[w].url.ok /\ coordinators[c].workers[w].url.host = coordinators[c].crawl_target.host

\* a coordinator has resolved a mailto link, a string that is neither absolute nor root-relative,
\* an ftp link, a link to an unrelated host and a link to a related host
C7_Witness == \E c \in DOMAIN coordinators : coordinators[c].batch = {} /\ {<<"mailto", ":", "u">>, <<"p">>, Abs("ftp", s_a, <<"/", "r">>), Abs("https", s_u, <<"/">>), Abs("https", s_b, <<"/", "p">>)} \subseteq coordinators[c].resolved

\* the worker met one of the cases in which crawl_url must stay silent
Silent(worker) == worker.kind \in {"probe_failed", "no_content_type", "not_html", "get_failed", "decode_failed"} \/ (worker.kind = "html" /\ page_of(worker.url).hrefs = {})

\* a step in which worker w of coordinator c ends its fetch in one of the silent cases
SilentFinish(c, w) == /\ c \in DOMAIN coordinators /\ w \in DOMAIN coordinators[c].workers
                      /\ coordinators[c].workers[w].pc = "fetch"
                      /\ coordinators'[c].workers[w].pc \notin {"fetch", "aborted"}
                      /\ Silent(coordinators'[c].workers[w])

\* C8: a URL worker sends at most one message; in the silent cases it sends
\* none, does not panic, and its step changes nothing but the worker itself.
C8_WorkerSilent ==
  /\ [](\A c \in DOMAIN coordinators : \A w \in DOMAIN coordinators[c].workers :
          /\ coordinators[c].workers[w].sent <= 1
          /\ Silent(coordinators[c].workers[w]) => coordinators[c].workers[w].sent = 0 /\ coordinators[c].workers[w].pc \notin {"send", "exit", "panicked"})
  /\ [][\A c \in DOMAIN coordinators : \A w \in DOMAIN coordinators[c].workers : SilentFinish(c, w) =>
          /\ coordinators' = [coordinators EXCEPT ![c].workers[w] = coordinators'[c].workers[w]]
          /\ coordinators'[c].workers[w].pc = "done"
          /\ UNCHANGED <<crawl_targets, new_targets, new_targets_closed, crawl_target_tasks>>]_vars

\* six coordinators whose root workers have finished, one for each silent case
C8_Witness ==
  /\ Len(coordinators) = 6
  /\ \A c \in DOMAIN coordinators : coordinators[c].workers[1].pc = "done" /\ coordinators[c].workers[1].sent = 0
  /\ {coordinators[c].workers[1].kind : c \in DOMAIN coordinators} = {"html", "probe_failed", "no_content_type", "not_html", "get_failed", "decode_failed"}

\* number of "." in a domain
dots(d) == Cardinality({i \in 1..Len(d) : d[i] = "."})

\* the part of a domain after its second-last "." (the whole domain if it has one ".")
last_two_labels(d) == LET at == {i \in 1..Len(d) : d[i] = "." /\ Cardinality({j \in (i + 1)..Len(d) : d[j] = "."}) = 1} IN IF at = {} THEN d ELSE SubSeq(d, (CHOOSE i \in at : TRUE) + 1, Len(d))

\* the relation C9 states
stated_relation(h1, h2) ==
  IF h1.kind # h2.kind THEN "Unrelated"
  ELSE IF h1.val = h2.val THEN "Same"
  ELSE IF h1.kind = "Domain" /\ dots(h1.val) >= 1 /\ dots(h2.val) >= 1 /\ last_two_labels(h1.val) = last_two_labels(h2.val) THEN "Related"
  ELSE "Unrelated"

\* C9: compare_hosts answers Same for equal hosts of one kind, Related for
\* different domains with equal last two labels, and Unrelated otherwise.
C9_CompareHosts == relation # <<>> => relation[1] = stated_relation(hosts[1], hosts[2])

\* two different domains, one a subdomain of the other's parent, were found Related
C9_Witness == relation # <<>> /\ relation[1] = "Related" /\ hosts[1].kind = "Domain" /\ Len(hosts[1].val) # Len(hosts[2].val)

\* C10: compare_hosts(h1, h2) = compare_hosts(h2, h1).
C10_Symmetric == relation # <<>> => relation[1] = relation[2]

\* a domain and an IPv4 address were compared in both orders
C10_Witness == relation # <<>> /\ hosts[1].kind = "Domain" /\ hosts[2].kind = "Ipv4" /\ relation[2] = "Unrelated"

\* an absolute link with the scheme http or https
is_http_link(link) == Len(link) >= 3 /\ link[1] \in {"http", "https"} /\ link[2] = "://"

\* a string without its last character when that is a slash
without_slash(str) == IF str # <<>> /\ str[Len(str)] = "/" THEN SubSeq(str, 1, Len(str) - 1) ELSE str

\* two absolute links that differ only in scheme (http or https) and/or in a trailing slash
differ_in_scheme_or_slash(link1, link2) == is_http_link(link1) /\ is_http_link(link2) /\ link1 # link2 /\ without_slash(SubSeq(link1, 3, Len(link1))) = without_slash(SubSeq(link2, 3, Len(link2)))

\* an absolute link to the host of the coordinator
same_host_link(link, crawl_target) == LET parsed_url == Url_parse(link) IN parsed_url.ok /\ parsed_url.host.kind # "None" /\ compare_hosts(parsed_url.host, crawl_target.host) = "Same"

\* a key handed to the normalization again: parsed as a URL and normalized, when it parses
renormalized(key) == LET parsed_url == Url_parse(key) IN IF parsed_url.ok THEN <<"Ok", normalized_url(parsed_url)>> ELSE <<"Err", <<>>>>

\* coordinator c resolves a same-host absolute link after another one that
\* differs from it only in scheme and/or trailing slash
SecondSpelling(c) ==
  /\ c \in DOMAIN coordinators /\ c \in DOMAIN coordinators'
  /\ coordinators'[c].resolved # coordinators[c].resolved
  /\ \E link \in coordinators'[c].resolved \ coordinators[c].resolved : \E first \in coordinators[c].resolved :
       same_host_link(link, coordinators[c].crawl_target) /\ same_host_link(first, coordinators[c].crawl_target) /\ differ_in_scheme_or_slash(first, link)

\* the first half of C11: the second spelling of a same-host absolute link has
\* the key of the first one and dispatches no URL worker
SecondSpellingNotDispatched ==
  /\ [](\A c \in DOMAIN coordinators : \A l1, l2 \in coordinators[c].resolved :
          same_host_link(l1, coordinators[c].crawl_target) /\ same_host_link(l2, coordinators[c].crawl_target) /\ differ_in_scheme_or_slash(l1, l2)
          => normalized_url(Url_parse(l1)) = normalized_url(Url_parse(l2)))
  /\ [][\A c \in DOMAIN coordinators : SecondSpelling(c) => coordinators'[c].workers = coordinators[c].workers /\ coordinators'[c].crawled_urls = coordinators[c].crawled_urls]_vars

unfinished_workers(co) == {w \in DOMAIN co.workers : co.workers[w].pc \in Live}

\* C12: whenever a coordinator waits to receive, the strong senders of its link
\* channel are exactly its unfinished URL workers, so the channel closes when
\* the last of them finishes.
C12_OnlyWorkersHoldSenders == \A c \in DOMAIN coordinators : coordinators[c].pc = "recv" => link_senders(coordinators[c]) = Cardinality(unfinished_workers(coordinators[c]))

\* C13: once a receiver is closed nothing more is produced for it: a running
\* coordinator whose link channel is closed has no unfinished URL worker, the
\* orchestrator whose target channel is closed has no running coordinator, and
\* no send of a worker or of a coordinator fails on a closed receiver.
C13_NothingAfterClose ==
  /\ \A c \in DOMAIN coordinators : coordinators[c].pc \in Live /\ coordinators[c].closed => unfinished_workers(coordinators[c]) = {}
  /\ orch = "recv" /\ new_targets_closed => target_senders = 0
  /\ \A c \in DOMAIN coordinators : coordinators[c].pc # "panicked" /\ \A w \in DOMAIN coordinators[c].workers : coordinators[c].workers[w].pc # "panicked"

\* C14: in the coordinator without the close step, once every URL worker has
\* finished the receive loop eventually ends.
C14_EndsWithoutCloseStep == \A c \in 1..MaxCoordinators : (~close_when_idle /\ c \in DOMAIN coordinators /\ coordinators[c].pc \in Live /\ AllWorkersFinished(c)) ~> (c \in DOMAIN coordinators /\ coordinators[c].pc \notin Live)

\* C15: when crawl() has returned, every coordinator spawned has returned and
\* every URL worker spawned has run to completion; none is live and none was
\* cancelled or failed before completing.
C15_AllTasksCompleted == orch = "done" => \A c \in DOMAIN coordinators : coordinators[c].pc = "done" /\ \A w \in DOMAIN coordinators[c].workers : coordinators[c].workers[w].pc = "done"

\* C16: every crawl of one web from one seed set that returns ends with the
\* same pages fetched per host and the same crawl target set: the second of
\* two crawls ends like the first.
C16_OutcomeIndependentOfSchedule == orch = "done" /\ previous # NoOutcome => outcome = previous

\* the keys of the URL workers a coordinator has dispatched
dispatched_keys(co) == {co.workers[w].key : w \in DOMAIN co.workers}

\* C17: a coordinator's crawled_urls is exactly the set of keys of the URL
\* workers it has dispatched, one worker per key, the bare host standing for
\* the root worker; it changes only in a step of its coordinator that spawns a
\* worker for the key inserted, and it never loses an element.
C17_CrawledUrlsAreDispatchedKeys ==
  /\ [](\A c \in DOMAIN coordinators :
          /\ coordinators[c].crawled_urls = dispatched_keys(coordinators[c])
          /\ Cardinality(coordinators[c].crawled_urls) = Len(coordinators[c].workers)
          /\ coordinators[c].workers[1].key = host_to_string(coordinators[c].crawl_target.host))
  /\ [][\A c \in DOMAIN coordinators : c \in DOMAIN coordinators' =>
          /\ coordinators[c].crawled_urls \subseteq coordinators'[c].crawled_urls
          /\ SubSeq(coordinators'[c].workers, 1, Len(coordinators[c].workers)) = [w \in DOMAIN coordinators[c].workers |-> [coordinators'[c].workers[w] EXCEPT !.key = coordinators[c].workers[w].key]]
          /\ (coordinators'[c].crawled_urls # coordinators[c].crawled_urls \/ Len(coordinators'[c].workers) # Len(coordinators[c].workers)) =>
               /\ coordinators[c].pc = "links"
               /\ Len(coordinators'[c].workers) = Len(coordinators[c].workers) + 1
               /\ coordinators'[c].crawled_urls = coordinators[c].crawled_urls \cup {coordinators'[c].workers[Len(coordinators'[c].workers)].key}
               /\ coordinators'[c].workers[Len(coordinators'[c].workers)].key \notin coordinators[c].crawled_urls]_vars

\* a coordinator has dispatched the root worker, a worker under a key of a
\* relative link and a worker under a key of an absolute link
C17_Witness == \E c \in DOMAIN coordinators :
  /\ Len(coordinators[c].workers) = 3
  /\ coordinators[c].crawled_urls = {s_a, s_a \o <<"/", "p">>, <<"https", "://">> \o s_a \o <<"/", "p">>}
  /\ coordinators[c].batch = {}

\* C18: whenever crawl() takes a target that is not yet in crawl_targets out of
\* the channel, a strong sender of the channel is alive, so
\* weak_tx.upgrade().unwrap() does not fail.
C18_UpgradeSucceeds ==
  /\ orch # "panicked"
  /\ orch = "recv" /\ Len(new_targets) > 0 /\ is_new_target(crawl_targets, Head(new_targets)) => target_senders > 0

\* URL worker w of coordinator c waits to send its batch on the full link channel
BlockedWorker(c, w) == c \in DOMAIN coordinators /\ w \in DOMAIN coordinators[c].workers /\ coordinators[c].workers[w].pc = "send" /\ ~coordinators[c].closed /\ Len(coordinators[c].new_links) >= capacity

\* coordinator c waits to send a target on the full target channel
BlockedCoordinator(c) == c \in DOMAIN coordinators /\ coordinators[c].pc = "send" /\ ~new_targets_closed /\ Len(new_targets) >= capacity

\* some sender waits on a full channel
SomeSenderBlocked == \E c \in DOMAIN coordinators : BlockedCoordinator(c) \/ \E w \in DOMAIN coordinators[c].workers : BlockedWorker(c, w)

\* C19: the full channels cause no deadlock: whenever URL workers are blocked on
\* a full link channel or coordinators on the full target channel, a state
\* follows in which no sender is blocked, so none of them waits forever.
C19_BlockedSendersUnblocked == SomeSenderBlocked ~> ~SomeSenderBlocked

\* a coordinator is blocked on the full target channel while one of its URL
\* workers is blocked on its full link channel
C19_Witness == \E c \in DOMAIN coordinators : BlockedCoordinator(c) /\ \E w \in DOMAIN coordinators[c].workers : BlockedWorker(c, w)

====
